---- MODULE Spec2Model ----
(***************************************************************************)
(* Model of the Serial Receiver layer of CRSF for Arduino                  *)
(* (src/SerialReceiver/SerialReceiver.cpp).                                *)
(*                                                                         *)
(* The controller owns a UART, a CRSF decode engine and a telemetry        *)
(* engine.  begin(), end() and the accessors run to completion from a      *)
(* quiescent context; processFrames() is modelled statement by statement   *)
(* because the UART receive interrupt fills the receive buffer while it    *)
(* runs.                                                                   *)
(*                                                                         *)
(* The engine pointers are "null", "live" or "freed" (deleted, but the     *)
(* pointer still holds the address).  Calling through a null or freed      *)
(* pointer and deleting a freed one are undefined behaviour: the step that *)
(* does it records the kind in fault, and nothing is said of the program   *)
(* from there on (no action is enabled).                                   *)
(*                                                                         *)
(* The decode engine, the telemetry engine, the compatibility table and    *)
(* the UART are behind interfaces: the engine is a byte counter that       *)
(* reports a frame every FrameLength bytes, telemetry->update() and the    *)
(* allocations answer either way, the board is compatible or not for the   *)
(* whole run.                                                              *)
(*                                                                         *)
(* Three specifications: Spec is the receiver from construction (begin,    *)
(* end, processFrames and the channel accessors); SpecConv applies the     *)
(* unit converters to a decoded channel value; SpecFlight exercises the    *)
(* flight-mode table, its callback and the flight-mode telemetry writer.   *)
(***************************************************************************)
EXTENDS Integers, Sequences, FiniteSets, TLC

(***************************************************************************)
(* Bounds of the model.                                                    *)
(***************************************************************************)
\* capacity of the UART receive buffer, in bytes
MaxBuf == 4
\* bytes that may arrive on the UART while one processFrames() call runs
MaxDuringCall == 2
\* a byte is reduced to what a frame ending in it decodes to, one of the
\* payloads 0 .. MaxPayload
MaxPayload == 1

(***************************************************************************)
(* Program constants.                                                      *)
(***************************************************************************)
RC_CHANNEL_COUNT == 16
RC_CHANNEL_THROTTLE == 2
RC_CHANNEL_AUX1 == 4
CRSF_RC_CHANNEL_MIN == 172
CRSF_RC_CHANNEL_CENTER == 992
CRSF_RC_CHANNEL_MAX == 1811
\* length of a frame on the wire, in bytes
FrameLength == 2
\* 0.62477120195241F is SCALE_MANTISSA * 2^-24 as an IEEE-754 binary32
SCALE_MANTISSA == 10481921
OFFSET_US == 881

\* number of flight modes, i.e. of entries of the flight-mode table; the
\* table is scaled down to the first modes.  The modes are numbered from
\* the disarmed one in the order of the cases of telemetryWriteFlightMode()
FLIGHT_MODE_COUNT == 3
FLIGHT_MODE_DISARMED == 0
FLIGHT_MODE_FAILSAFE == 1
FLIGHT_MODE_GPS_RESCUE == 2
FLIGHT_MODE_PASSTHROUGH == 3
FLIGHT_MODE_ANGLE == 4
FLIGHT_MODE_HORIZON == 5
FLIGHT_MODE_AIRMODE == 6

Bytes == 0 .. MaxPayload
Channels == 0 .. (RC_CHANNEL_COUNT - 1)

VARIABLES
    cfg,                \* build configuration (the CRSF_*_ENABLED macros)
    devboardCompatible, \* what the compatibility table says of this board
    crsf,               \* the crsf pointer: "null", "live" or "freed"
    telemetry,          \* the telemetry pointer: "null", "live" or "freed"
    eng,                \* state of the decode engine crsf points to
    uartOpen,           \* _uart->begin() called and not yet _uart->end()
    available,          \* _uart->available(): bytes buffered on the UART;
                        \* nothing looks at a buffered byte before it is
                        \* read, so its value is drawn when it is read
    rcChannels,         \* *_rcChannels: valid, failsafe, value[16]
    linkStatistics,     \* _linkStatistics
    rcChannelsCallback, \* _rcChannelsCallback # nullptr
    linkStatisticsCallback, \* _linkStatisticsCallback # nullptr
    pc,                 \* position inside processFrames(), "idle" outside
    call,               \* what the running or just returned processFrames()
                        \* call did; cleared by the next operation
    hist,               \* history since construction / since begin()
    last,               \* last operation called, its channel argument, its
                        \* boolean argument or result, its numeric result
    fault,              \* undefined behaviour executed, "none" if none
    flightModes,        \* _flightModes[FLIGHT_MODE_COUNT]: channel, min and
                        \* max of each entry, and whether setFlightMode()
                        \* has written it; an entry not yet written holds
                        \* whatever the allocation left there
    flightModeCallback  \* _flightModeCallback # nullptr

vars == <<cfg, devboardCompatible, crsf, telemetry, eng, uartOpen, available,
          rcChannels, linkStatistics, rcChannelsCallback,
          linkStatisticsCallback, pc, call, hist, last, fault, flightModes,
          flightModeCallback>>

(***************************************************************************)
(* Build configurations.  processFrames() is compiled when at least one of *)
(* RC, telemetry and link statistics is enabled; the channel               *)
(* initialisation macros only matter when RC is enabled.  Every            *)
(* combination of the three features is covered with both channels forced, *)
(* and every combination of the initialisation macros with all features.   *)
(***************************************************************************)
AllConfigs ==
    { c \in [rc : BOOLEAN, ls : BOOLEAN, tel : BOOLEAN,
             initCh : BOOLEAN, initArm : BOOLEAN, initThr : BOOLEAN] :
        /\ c.rc \/ c.ls \/ c.tel
        /\ (~c.rc) => (~c.initCh /\ ~c.initArm /\ ~c.initThr)
        /\ (~c.initCh) => (~c.initArm /\ ~c.initThr) }

Configs ==
    { c \in AllConfigs :
        \/ c.rc /\ c.initCh /\ c.initArm /\ c.initThr
        \/ c.rc /\ c.ls /\ c.tel
        \/ ~c.rc }

CRSF_RC_ENABLED == cfg.rc
CRSF_LINK_STATISTICS_ENABLED == cfg.ls
CRSF_TELEMETRY_ENABLED == cfg.tel
CRSF_RC_INITIALISE_CHANNELS == cfg.initCh
CRSF_RC_INITIALISE_ARMCHANNEL == cfg.initArm
CRSF_RC_INITIALISE_THROTTLECHANNEL == cfg.initThr

(***************************************************************************)
(* Binary32 arithmetic of readRcChannel()/rcToUs():                        *)
(*     (uint16_t)((value * 0.62477120195241F) + 881)                       *)
(* Every intermediate is rounded to 24 significant bits, ties to even.     *)
(* Products are split so that no operand exceeds 31 bits.                  *)
(***************************************************************************)
RECURSIVE Pow2(_)
Pow2(n) == IF n = 0 THEN 1 ELSE 2 * Pow2(n - 1)

RECURSIVE BitLen(_)
BitLen(n) == IF n = 0 THEN 0 ELSE 1 + BitLen(n \div 2)

\* n / 2^s rounded to the nearest integer, ties to even
RoundShift(n, s) ==
    LET q == n \div Pow2(s)
        r == n % Pow2(s)
        half == Pow2(s) \div 2
    IN  IF s = 0 THEN n
        ELSE IF r > half \/ (r = half /\ q % 2 = 1) THEN q + 1 ELSE q

\* value * 0.62477120195241F as a binary32: <<m, e>> stands for m * 2^-e,
\* m <= 2^24 and e in 8 .. 24 for a 16-bit value
ScaleF32(value) ==
    LET Mh == SCALE_MANTISSA \div 4096
        Ml == SCALE_MANTISSA % 4096
        lo == value * Ml
        A  == value * Mh + (lo \div 4096)      \* product = A * 4096 + B
        B  == lo % 4096
        L  == IF A = 0 THEN BitLen(B) ELSE BitLen(A) + 12
        s  == IF L > 24 THEN L - 24 ELSE 0
        q  == IF s <= 12
              THEN A * Pow2(12 - s) + (B \div Pow2(s))
              ELSE A \div Pow2(s - 12)
        r  == IF s <= 12
              THEN B % Pow2(s)
              ELSE (A % Pow2(s - 12)) * 4096 + B
        half == IF s = 0 THEN 0 ELSE Pow2(s - 1)
        up == s > 0 /\ (r > half \/ (r = half /\ q % 2 = 1))
    IN  <<IF up THEN q + 1 ELSE q, 24 - s>>

\* (uint16_t)(p + 881) for the binary32 p = m * 2^-e
AddOffsetTrunc(p) ==
    LET m == p[1]
        e == p[2]
        ip == m \div Pow2(e)                    \* integer part of p
        fp == (m % Pow2(e)) * Pow2(24 - e)      \* fraction of p, in 2^-24
        int == ip + OFFSET_US
        k == BitLen(int)                        \* sum in [2^(k-1), 2^k)
        fr == RoundShift(fp, k)                 \* fraction in 2^(k-24)
        carry == IF fr = Pow2(24 - k) THEN 1 ELSE 0
    IN  int + carry

RcToUsF32(value) == AddOffsetTrunc(ScaleF32(value))

(***************************************************************************)
(* Binary32 arithmetic of usToRc():                                        *)
(*     (uint16_t)((us - 881) / 0.62477120195241F)                          *)
(* us - 881 is an int below 2^24, exact as a binary32.  The quotient       *)
(* n * 2^24 / SCALE_MANTISSA is developed bit by bit, rounded to 24        *)
(* significant bits, ties to even, and truncated by the cast.              *)
(***************************************************************************)
\* schoolbook binary division: <<q, r>> after `steps` more quotient bits,
\* r below SCALE_MANTISSA throughout
RECURSIVE LongDiv(_, _, _)
LongDiv(q, r, steps) ==
    IF steps = 0 THEN <<q, r>>
    ELSE IF 2 * r >= SCALE_MANTISSA
         THEN LongDiv(2 * q + 1, 2 * r - SCALE_MANTISSA, steps - 1)
         ELSE LongDiv(2 * q, 2 * r, steps - 1)

\* (uint16_t)(n / 0.62477120195241F) for an int n in 0 .. 2^16
DivScaleTrunc(n) ==
    LET b == BitLen(LongDiv(0, n, 24)[1])   \* bits of the integer part
        Q == LongDiv(0, n, 49 - b)          \* 25 significant bits and rest
        m == Q[1] \div 2
        up == Q[1] % 2 = 1 /\ (Q[2] > 0 \/ m % 2 = 1)
        m24 == IF up THEN m + 1 ELSE m      \* quotient = m24 * 2^(b - 24)
    IN  IF n = 0 THEN 0 ELSE m24 \div Pow2(24 - b)

\* faulty variant: the offset added is 880
rcToUs_offset880(rc) == RcToUsF32(rc) - 1

\* uint16_t SerialReceiver::rcToUs(uint16_t rc)
rcToUs(rc) == RcToUsF32(rc)

\* uint16_t SerialReceiver::usToRc(uint16_t us), for us >= 881; a smaller us
\* makes the quotient negative and its conversion to uint16_t undefined
usToRc(us) == DivScaleTrunc(us - OFFSET_US)

(***************************************************************************)
(* The decode engine (class CRSF).  A frame on the wire is FrameLength     *)
(* bytes; the engine counts the bytes of the frame in progress and reports *)
(* a completed frame on the last one, which carries what the frame         *)
(* decodes to.                                                             *)
(***************************************************************************)
\* payload 0 is a frame with every channel centred that reports the link
\* lost; payload 1 has every channel at the maximum, the others at the
\* minimum
DecodedValue(byte) ==
    IF byte = 0 THEN CRSF_RC_CHANNEL_CENTER
    ELSE IF byte = 1 THEN CRSF_RC_CHANNEL_MAX
    ELSE CRSF_RC_CHANNEL_MIN

EngineNew ==
    [pos |-> 0, rcFrameReceived |-> FALSE, payload |-> 0,
     failsafe |-> FALSE, stats |-> 0]

\* crsf->receiveFrames(byte): TRUE when the byte completes a frame
receiveFramesCompletes(e) == e.pos + 1 = FrameLength

\* the engine after crsf->receiveFrames(byte); only the byte that ends a
\* frame is looked at
receiveFrames(e, byte) ==
    IF receiveFramesCompletes(e)
    THEN [pos |-> 0, rcFrameReceived |-> TRUE, payload |-> byte,
          failsafe |-> (byte = 0), stats |-> byte + 1]
    ELSE [e EXCEPT !.pos = e.pos + 1]

\* crsf->getRcChannels(value): the channels of the last frame, once a frame
\* has been received; the caller's array is left alone otherwise
getRcChannels(e, value) ==
    IF e.rcFrameReceived
    THEN [i \in Channels |-> DecodedValue(e.payload)]
    ELSE value

\* crsf->getFailSafe(&failsafe)
getFailSafe(e) == e.failsafe

\* crsf->getLinkStatistics(&_linkStatistics)
getLinkStatistics(e) == e.stats

(***************************************************************************)
(* Construction.                                                           *)
(***************************************************************************)
\* SerialReceiver::SerialReceiver(): the snapshot is allocated invalid, with
\* failsafe off and every channel zero
InitSnapshot ==
    [valid |-> FALSE, failsafe |-> FALSE, value |-> [i \in Channels |-> 0]]

CallNew ==
    [buffered |-> 0, arrivals |-> 0, fed |-> 0, dropped |-> 0, frames |-> 0,
     pending |-> 0, droppedSince |-> 0, lsCalls |-> 0, rcCalls |-> 0,
     telUpdates |-> 0, telReady |-> 0, telSends |-> 0, twoFrames |-> FALSE,
     returned |-> FALSE]

HistNew ==
    [everFrame |-> FALSE, begun |-> "no", frameSinceBegin |-> FALSE,
     crsfFrees |-> 0, telemetryFrees |-> 0]

\* the engine pointers and the callbacks start out null
InitEngines ==
    /\ crsf = "null"
    /\ telemetry = "null"
    /\ eng = EngineNew
    /\ rcChannelsCallback = FALSE
    /\ linkStatisticsCallback = FALSE
    /\ linkStatistics = 0

\* new flightMode_t[FLIGHT_MODE_COUNT] initialises no entry
FlightModesNew ==
    [i \in 0 .. (FLIGHT_MODE_COUNT - 1) |->
        [written |-> FALSE, channel |-> 0, min |-> 0, max |-> 0]]

\* the flight-mode callback starts out null
InitFlightModes ==
    /\ flightModes = FlightModesNew
    /\ flightModeCallback = FALSE

Init ==
    /\ cfg \in Configs
    /\ devboardCompatible \in BOOLEAN
    /\ InitEngines
    /\ uartOpen = FALSE
    /\ available = 0
    /\ rcChannels = InitSnapshot
    /\ pc = "idle"
    /\ call = CallNew
    /\ hist = HistNew
    /\ last = [op |-> "construct", arg |-> 0, ok |-> TRUE, val |-> 0]
    /\ fault = "none"
    /\ InitFlightModes

(***************************************************************************)
(* The UART receive interrupt: a byte arrives while the port is open and   *)
(* the receive buffer has room.                                            *)
(***************************************************************************)
Arrive ==
    /\ fault = "none"
    /\ uartOpen
    /\ available < MaxBuf
    /\ (pc # "idle") => call.arrivals < MaxDuringCall
    /\ available' = available + 1
    /\ call' = IF pc # "idle"
               THEN [call EXCEPT !.arrivals = call.arrivals + 1]
               ELSE CallNew
    /\ UNCHANGED <<flightModes, flightModeCallback,
                   cfg, devboardCompatible, crsf, telemetry, eng, uartOpen,
                   rcChannels, linkStatistics, rcChannelsCallback,
                   linkStatisticsCallback, pc, hist, last, fault>>

(***************************************************************************)
(* begin()                                                                 *)
(***************************************************************************)
\* faulty variant: with both channels forced, only the throttle is
beginChannels_throttleOnly(value) ==
    IF ~(CRSF_RC_ENABLED /\ CRSF_RC_INITIALISE_CHANNELS) THEN value
    ELSE [i \in Channels |->
            IF CRSF_RC_INITIALISE_THROTTLECHANNEL /\ i = RC_CHANNEL_THROTTLE
            THEN CRSF_RC_CHANNEL_MIN
            ELSE IF CRSF_RC_INITIALISE_ARMCHANNEL
                    /\ ~CRSF_RC_INITIALISE_THROTTLECHANNEL
                    /\ i = RC_CHANNEL_AUX1
            THEN CRSF_RC_CHANNEL_MIN
            ELSE CRSF_RC_CHANNEL_CENTER]

\* the channel initialisation loop of begin()
beginChannels(value) ==
    IF ~(CRSF_RC_ENABLED /\ CRSF_RC_INITIALISE_CHANNELS) THEN value
    ELSE [i \in Channels |->
            IF CRSF_RC_INITIALISE_ARMCHANNEL
               /\ CRSF_RC_INITIALISE_THROTTLECHANNEL
            THEN IF i = RC_CHANNEL_AUX1 \/ i = RC_CHANNEL_THROTTLE
                 THEN CRSF_RC_CHANNEL_MIN ELSE CRSF_RC_CHANNEL_CENTER
            ELSE IF CRSF_RC_INITIALISE_ARMCHANNEL
            THEN IF i = RC_CHANNEL_AUX1
                 THEN CRSF_RC_CHANNEL_MIN ELSE CRSF_RC_CHANNEL_CENTER
            ELSE IF CRSF_RC_INITIALISE_THROTTLECHANNEL
            THEN IF i = RC_CHANNEL_THROTTLE
                 THEN CRSF_RC_CHANNEL_MIN ELSE CRSF_RC_CHANNEL_CENTER
            ELSE CRSF_RC_CHANNEL_CENTER]

\* faulty variant: the result of the compatibility check is ignored
beginOutcome_unchecked(compatible, crsfAllocated, telemetryAllocated) ==
    IF ~crsfAllocated THEN "no_crsf"
    ELSE IF CRSF_TELEMETRY_ENABLED /\ ~telemetryAllocated THEN "no_telemetry"
    ELSE "done"

\* how far begin() gets: the compatibility check, new CRSF(), new Telemetry()
beginOutcome(compatible, crsfAllocated, telemetryAllocated) ==
    IF ~compatible THEN "incompatible"
    ELSE IF ~crsfAllocated THEN "no_crsf"
    ELSE IF CRSF_TELEMETRY_ENABLED /\ ~telemetryAllocated THEN "no_telemetry"
    ELSE "done"

\* begin() opens the transport once it has a decode engine
beginOpensUart(outcome) == outcome \in {"no_telemetry", "done"}

Begin ==
    /\ fault = "none"
    /\ pc = "idle"
    /\ \E crsfAllocated \in BOOLEAN, telemetryAllocated \in BOOLEAN :
        LET outcome == beginOutcome(devboardCompatible, crsfAllocated,
                                    telemetryAllocated)
        IN
        /\ rcChannels' = [rcChannels EXCEPT
                              !.value = beginChannels(rcChannels.value)]
        /\ crsf' = CASE outcome = "incompatible" -> crsf
                     [] outcome = "no_crsf" -> "null"
                     [] OTHER -> "live"
        /\ eng' = IF outcome = "incompatible" THEN eng ELSE EngineNew
        /\ uartOpen' = (uartOpen \/ beginOpensUart(outcome))
        /\ telemetry' = CASE outcome = "no_telemetry" -> "null"
                          [] outcome = "done" /\ CRSF_TELEMETRY_ENABLED
                               -> "live"
                          [] OTHER -> telemetry
        \* _uart->begin() resets the receive buffer; the trailing loop of
        \* begin() reads away what is pending
        /\ available' = IF beginOpensUart(outcome) THEN 0 ELSE available
        /\ hist' = [hist EXCEPT
                      !.begun = IF outcome = "done" THEN "ok" ELSE "failed",
                      !.frameSinceBegin = FALSE,
                      !.crsfFrees = IF outcome = "incompatible"
                                    THEN hist.crsfFrees ELSE 0,
                      !.telemetryFrees =
                          IF outcome \in {"no_telemetry", "done"}
                             /\ CRSF_TELEMETRY_ENABLED
                          THEN 0 ELSE hist.telemetryFrees]
        /\ last' = [op |-> "begin", arg |-> 0, ok |-> (outcome = "done"),
                    val |-> 0]
    /\ call' = CallNew
    /\ UNCHANGED <<flightModes, flightModeCallback,
                   cfg, devboardCompatible, linkStatistics,
                   rcChannelsCallback, linkStatisticsCallback, pc, fault>>

(***************************************************************************)
(* end()                                                                   *)
(***************************************************************************)
\* the pointer after "if (p != nullptr) { p->end(); delete p; }": end()
\* does not reset the pointer
endPointer(p) == IF p = "null" THEN "null" ELSE "freed"

\* that statement tears down an engine that end() has already deleted
endDoubleFree(p) == p = "freed"

\* number of teardowns that statement performs
endTeardowns(p) == IF p = "null" THEN 0 ELSE 1

End ==
    /\ fault = "none"
    /\ pc = "idle"
    /\ available' = 0
    /\ uartOpen' = FALSE
    /\ crsf' = endPointer(crsf)
    /\ LET crsfFault == endDoubleFree(crsf)
           telFault == CRSF_TELEMETRY_ENABLED /\ endDoubleFree(telemetry)
       IN
       /\ telemetry' = IF CRSF_TELEMETRY_ENABLED /\ ~crsfFault
                       THEN endPointer(telemetry) ELSE telemetry
       /\ fault' = IF crsfFault \/ telFault THEN "double_free" ELSE "none"
       /\ hist' = [hist EXCEPT
                     !.crsfFrees = hist.crsfFrees + endTeardowns(crsf),
                     !.telemetryFrees =
                         IF CRSF_TELEMETRY_ENABLED /\ ~crsfFault
                         THEN hist.telemetryFrees + endTeardowns(telemetry)
                         ELSE hist.telemetryFrees]
    \* val counts the end() calls in a row, up to two
    /\ last' = [op |-> "end", arg |-> 0, ok |-> TRUE,
                val |-> IF last.op = "end" THEN 2 ELSE 1]
    /\ eng' = EngineNew
    /\ call' = CallNew
    /\ UNCHANGED <<flightModes, flightModeCallback,
                   cfg, devboardCompatible, rcChannels, linkStatistics,
                   rcChannelsCallback, linkStatisticsCallback, pc>>

(***************************************************************************)
(* processFrames(), one statement per step.                                *)
(***************************************************************************)
\* what using the engine behind pointer p does: a null or deleted engine
\* is undefined behaviour
useFault(p) ==
    CASE p = "null" -> "null_deref"
      [] p = "freed" -> "use_after_free"
      [] OTHER -> "none"

\* the call is made
PF_Call ==
    /\ fault = "none"
    /\ pc = "idle"
    /\ pc' = "loop"
    /\ call' = [CallNew EXCEPT
                  !.buffered = available,
                  !.twoFrames = (crsf = "live" /\ eng.pos = 0
                                 /\ available >= 2 * FrameLength)]
    /\ last' = [op |-> "processFrames", arg |-> 0, ok |-> TRUE, val |-> 0]
    /\ UNCHANGED <<flightModes, flightModeCallback,
                   cfg, devboardCompatible, crsf, telemetry, eng, uartOpen,
                   available, rcChannels, linkStatistics, rcChannelsCallback,
                   linkStatisticsCallback, hist, fault>>

\* faulty variant: the frame handlers run without flushRemainingFrames()
loopNext_noFlush(completed) == IF completed THEN "linkstats" ELSE "loop"

\* faulty variant: the frame handlers run for every byte
loopNext_everyByte(completed) == "flush"

\* where the loop goes after crsf->receiveFrames() has returned
loopNext(completed) == IF completed THEN "flush" ELSE "loop"

\* while (_uart->available() > 0) { if (crsf->receiveFrames(_uart->read()))
PF_Loop ==
    /\ fault = "none"
    /\ pc = "loop"
    /\ IF available > 0
       THEN LET completed == receiveFramesCompletes(eng)
            IN
            /\ available' = available - 1
            /\ fault' = useFault(crsf)
            /\ IF crsf = "live"
               THEN /\ \E byte \in Bytes : eng' = receiveFrames(eng, byte)
                    /\ pc' = loopNext(completed)
                    /\ call' = [call EXCEPT
                                  !.fed = call.fed + 1,
                                  !.frames = IF completed
                                             THEN call.frames + 1
                                             ELSE call.frames,
                                  !.pending = IF completed
                                              THEN available - 1
                                              ELSE call.pending,
                                  !.droppedSince = IF completed THEN 0
                                                   ELSE call.droppedSince]
                    /\ hist' = IF completed
                               THEN [hist EXCEPT !.everFrame = TRUE,
                                                 !.frameSinceBegin = TRUE]
                               ELSE hist
               ELSE UNCHANGED <<eng, pc, call, hist>>
       ELSE /\ pc' = "publish"
            /\ UNCHANGED <<available, fault, eng, call, hist>>
    /\ UNCHANGED <<flightModes, flightModeCallback,
                   cfg, devboardCompatible, crsf, telemetry, uartOpen,
                   rcChannels, linkStatistics, rcChannelsCallback,
                   linkStatisticsCallback, last>>

\* faulty variant: flushRemainingFrames() reads without testing available()
flushReads_unchecked(n) == 1

\* faulty variant: flushRemainingFrames() reads nothing
flushReads_none(n) == 0

\* bytes one turn of the loop of flushRemainingFrames() reads
flushReads(n) == IF n > 0 THEN 1 ELSE 0

\* flushRemainingFrames(): while (_uart->available() > 0) _uart->read();
PF_Flush ==
    /\ fault = "none"
    /\ pc = "flush"
    /\ IF flushReads(available) > 0
       THEN /\ available' = available - flushReads(available)
            /\ call' = [call EXCEPT !.dropped = call.dropped + 1,
                                    !.droppedSince = call.droppedSince + 1]
            /\ pc' = "flush"
       ELSE /\ pc' = "linkstats"
            /\ UNCHANGED <<available, call>>
    /\ UNCHANGED <<flightModes, flightModeCallback,
                   cfg, devboardCompatible, crsf, telemetry, eng, uartOpen,
                   rcChannels, linkStatistics, rcChannelsCallback,
                   linkStatisticsCallback, hist, last, fault>>

\* number of calls "if (callback != nullptr) callback(...)" makes
invoke(callback) == IF callback THEN 1 ELSE 0

\* crsf->getLinkStatistics(&_linkStatistics); _linkStatisticsCallback(...)
PF_LinkStatistics ==
    /\ fault = "none"
    /\ pc = "linkstats"
    /\ pc' = "telemetry"
    /\ IF CRSF_LINK_STATISTICS_ENABLED
       THEN /\ linkStatistics' = getLinkStatistics(eng)
            /\ call' = [call EXCEPT !.lsCalls =
                          call.lsCalls + invoke(linkStatisticsCallback)]
       ELSE UNCHANGED <<linkStatistics, call>>
    /\ UNCHANGED <<flightModes, flightModeCallback,
                   cfg, devboardCompatible, crsf, telemetry, eng, uartOpen,
                   available, rcChannels, rcChannelsCallback,
                   linkStatisticsCallback, hist, last, fault>>

\* if (telemetry->update()) telemetry->sendTelemetryData(_uart);
\* faulty variant: the payload is sent whatever update() returns
telemetrySends_always(ready) == 1

\* if (telemetry->update()) telemetry->sendTelemetryData(_uart);
telemetrySends(ready) == IF ready THEN 1 ELSE 0

PF_Telemetry ==
    /\ fault = "none"
    /\ pc = "telemetry"
    /\ IF CRSF_TELEMETRY_ENABLED
       THEN /\ fault' = useFault(telemetry)
            /\ IF telemetry = "live"
               THEN \E ready \in BOOLEAN :
                      /\ call' = [call EXCEPT
                                    !.telUpdates = call.telUpdates + 1,
                                    !.telReady = call.telReady
                                                 + invoke(ready),
                                    !.telSends = call.telSends
                                                 + telemetrySends(ready)]
                      /\ pc' = "loop"
               ELSE UNCHANGED <<call, pc>>
       ELSE /\ pc' = "loop"
            /\ UNCHANGED <<call, fault>>
    /\ UNCHANGED <<flightModes, flightModeCallback,
                   cfg, devboardCompatible, crsf, telemetry, eng, uartOpen,
                   available, rcChannels, linkStatistics, rcChannelsCallback,
                   linkStatisticsCallback, hist, last>>

\* faulty variant: the channels are cleared before they are pulled from the engine
publishSnapshot_cleared(snapshot, e) ==
    [snapshot EXCEPT !.failsafe = getFailSafe(e),
                     !.value = getRcChannels(e, [i \in Channels |-> 0])]

\* the snapshot after crsf->getFailSafe() and crsf->getRcChannels(): the
\* valid flag is not written
publishSnapshot(snapshot, e) ==
    [snapshot EXCEPT !.failsafe = getFailSafe(e),
                     !.value = getRcChannels(e, snapshot.value)]

\* faulty variant: the callback is called only when a frame completed in the call
publishCalls_onFrame(callback, frames) ==
    IF frames > 0 THEN invoke(callback) ELSE 0

\* calls of _rcChannelsCallback after the loop, whatever the number of
\* frames the loop completed
publishCalls(callback, frames) == invoke(callback)

\* after the loop: update the RC channels, call the callback, return
PF_Publish ==
    /\ fault = "none"
    /\ pc = "publish"
    /\ IF CRSF_RC_ENABLED
       THEN /\ fault' = useFault(crsf)
            /\ IF crsf = "live"
               THEN /\ rcChannels' = publishSnapshot(rcChannels, eng)
                    /\ eng' = [eng EXCEPT !.rcFrameReceived = FALSE]
                    /\ call' = [call EXCEPT
                                  !.rcCalls = call.rcCalls
                                      + publishCalls(rcChannelsCallback,
                                                     call.frames),
                                  !.returned = TRUE]
                    /\ pc' = "idle"
               ELSE UNCHANGED <<rcChannels, eng, call, pc>>
       ELSE /\ pc' = "idle"
            /\ call' = [call EXCEPT !.returned = TRUE]
            /\ UNCHANGED <<rcChannels, eng, fault>>
    /\ UNCHANGED <<flightModes, flightModeCallback,
                   cfg, devboardCompatible, crsf, telemetry, uartOpen,
                   available, linkStatistics, rcChannelsCallback,
                   linkStatisticsCallback, hist, last>>

(***************************************************************************)
(* Callback registration.                                                  *)
(***************************************************************************)
SetRcChannelsCallback ==
    /\ fault = "none"
    /\ pc = "idle"
    /\ CRSF_RC_ENABLED
    /\ \E callback \in BOOLEAN : rcChannelsCallback' = callback
    /\ call' = CallNew
    /\ UNCHANGED <<flightModes, flightModeCallback,
                   cfg, devboardCompatible, crsf, telemetry, eng, uartOpen,
                   available, rcChannels, linkStatistics,
                   linkStatisticsCallback, pc, hist, last, fault>>

SetLinkStatisticsCallback ==
    /\ fault = "none"
    /\ pc = "idle"
    /\ CRSF_LINK_STATISTICS_ENABLED
    /\ \E callback \in BOOLEAN : linkStatisticsCallback' = callback
    /\ call' = CallNew
    /\ UNCHANGED <<flightModes, flightModeCallback,
                   cfg, devboardCompatible, crsf, telemetry, eng, uartOpen,
                   available, rcChannels, linkStatistics, rcChannelsCallback,
                   pc, hist, last, fault>>

(***************************************************************************)
(* Channel accessors.                                                      *)
(***************************************************************************)
\* channel arguments the accessors are called with (uint8_t)
ChannelArgs == {RC_CHANNEL_THROTTLE, RC_CHANNEL_AUX1, 16, 255}

\* faulty variant: the range check guards the raw branch only
readRcChannel_rawOnly(channel, raw) ==
    LET value == IF channel <= 15 THEN rcChannels.value[channel] ELSE 0
    IN  IF raw THEN value ELSE RcToUsF32(value)

readRcChannel(channel, raw) ==
    IF channel <= 15
    THEN IF raw
         THEN rcChannels.value[channel]
         ELSE RcToUsF32(rcChannels.value[channel])
    ELSE 0

getChannel(channel) == readRcChannel(channel, TRUE)

ReadRcChannel ==
    /\ fault = "none"
    /\ pc = "idle"
    /\ CRSF_RC_ENABLED
    /\ \E channel \in ChannelArgs, raw \in BOOLEAN :
         last' = [op |-> "readRcChannel", arg |-> channel, ok |-> raw,
                  val |-> readRcChannel(channel, raw)]
    /\ call' = CallNew
    /\ UNCHANGED <<flightModes, flightModeCallback,
                   cfg, devboardCompatible, crsf, telemetry, eng, uartOpen,
                   available, rcChannels, linkStatistics, rcChannelsCallback,
                   linkStatisticsCallback, pc, hist, fault>>

GetChannel ==
    /\ fault = "none"
    /\ pc = "idle"
    /\ CRSF_RC_ENABLED
    /\ \E channel \in ChannelArgs :
         last' = [op |-> "getChannel", arg |-> channel, ok |-> TRUE,
                  val |-> getChannel(channel)]
    /\ call' = CallNew
    /\ UNCHANGED <<flightModes, flightModeCallback,
                   cfg, devboardCompatible, crsf, telemetry, eng, uartOpen,
                   available, rcChannels, linkStatistics, rcChannelsCallback,
                   linkStatisticsCallback, pc, hist, fault>>

Next ==
    \/ Arrive
    \/ Begin
    \/ End
    \/ PF_Call
    \/ PF_Loop
    \/ PF_Flush
    \/ PF_LinkStatistics
    \/ PF_Telemetry
    \/ PF_Publish
    \/ SetRcChannelsCallback
    \/ SetLinkStatisticsCallback
    \/ ReadRcChannel
    \/ GetChannel

Spec == Init /\ [][Next]_vars

(***************************************************************************)
(* The unit converters rcToUs() and usToRc().  They are pure: the second   *)
(* specification starts from a receiver that has begun and decoded a frame *)
(* whose channels all hold one raw value of the 11-bit channel range, and  *)
(* applies the converters and readRcChannel() to it.  usToRc() is applied  *)
(* to what rcToUs() has just returned or to the stored value itself; a     *)
(* microsecond value below 881 makes the float-to-integer conversion       *)
(* undefined.                                                              *)
(***************************************************************************)
\* largest raw channel value drawn
MaxRc == 2047

RcArgs == 0 .. MaxRc

InitConv ==
    /\ cfg = [rc |-> TRUE, ls |-> TRUE, tel |-> TRUE,
              initCh |-> FALSE, initArm |-> FALSE, initThr |-> FALSE]
    /\ devboardCompatible = TRUE
    /\ crsf = "live"
    /\ telemetry = "live"
    /\ \E byte \in Bytes :
         eng = receiveFrames([EngineNew EXCEPT !.pos = FrameLength - 1], byte)
    /\ rcChannelsCallback = FALSE
    /\ linkStatisticsCallback = FALSE
    /\ linkStatistics = getLinkStatistics(eng)
    /\ uartOpen = TRUE
    /\ available = 0
    /\ \E rc \in RcArgs :
         rcChannels = [valid |-> FALSE, failsafe |-> getFailSafe(eng),
                       value |-> [i \in Channels |-> rc]]
    /\ pc = "idle"
    /\ call = CallNew
    /\ hist = [HistNew EXCEPT !.everFrame = TRUE, !.begun = "ok",
                              !.frameSinceBegin = TRUE]
    /\ last = [op |-> "construct", arg |-> 0, ok |-> TRUE, val |-> 0]
    /\ fault = "none"
    /\ InitFlightModes

RcToUs ==
    /\ fault = "none"
    /\ pc = "idle"
    /\ \E channel \in ChannelArgs \cap Channels :
         last' = [op |-> "rcToUs", arg |-> rcChannels.value[channel],
                  ok |-> TRUE, val |-> rcToUs(rcChannels.value[channel])]
    /\ call' = CallNew
    /\ UNCHANGED <<flightModes, flightModeCallback,
                   cfg, devboardCompatible, crsf, telemetry, eng, uartOpen,
                   available, rcChannels, linkStatistics, rcChannelsCallback,
                   linkStatisticsCallback, pc, hist, fault>>

\* the microsecond values usToRc() is applied to
UsArgs ==
    {rcChannels.value[channel] : channel \in ChannelArgs \cap Channels}
    \cup (IF last.op = "rcToUs" THEN {last.val} ELSE {})

UsToRc ==
    /\ fault = "none"
    /\ pc = "idle"
    /\ \E us \in UsArgs :
         IF us >= OFFSET_US
         THEN /\ last' = [op |-> "usToRc", arg |-> us, ok |-> TRUE,
                          val |-> usToRc(us)]
              /\ UNCHANGED fault
         ELSE /\ last' = [op |-> "usToRc", arg |-> us, ok |-> FALSE,
                          val |-> 0]
              /\ fault' = "negative_to_unsigned"
    /\ call' = CallNew
    /\ UNCHANGED <<flightModes, flightModeCallback,
                   cfg, devboardCompatible, crsf, telemetry, eng, uartOpen,
                   available, rcChannels, linkStatistics, rcChannelsCallback,
                   linkStatisticsCallback, pc, hist>>

NextConv ==
    \/ RcToUs
    \/ UsToRc
    \/ ReadRcChannel

SpecConv == InitConv /\ [][NextConv]_vars

(***************************************************************************)
(* Flight modes: setFlightMode(), setFlightModeCallback(),                 *)
(* handleFlightMode() and telemetryWriteFlightMode().  The third           *)
(* specification starts from a receiver that has begun and decoded one     *)
(* frame, with the flight-mode table as the constructor left it.           *)
(*                                                                         *)
(* handleFlightMode() compares `_rcChannels[_flightModes[i].channel]` with *)
(* the bounds of entry i.  _rcChannels points to the one snapshot          *)
(* structure, so the subscript designates the snapshot itself or a         *)
(* structure past it, never value[channel]: what is compared is not        *)
(* defined by the program, and is drawn per subscript.  An entry that was  *)
(* never written holds indeterminate channel, min and max, so whether it   *)
(* matches is drawn as well.                                               *)
(***************************************************************************)
\* uint16_t values on each side of the bounds the entries are given
Uint16Samples ==
    {0, CRSF_RC_CHANNEL_MIN, CRSF_RC_CHANNEL_CENTER, CRSF_RC_CHANNEL_MAX}

FlightModeIds == 0 .. (FLIGHT_MODE_COUNT - 1)

\* flightMode_t arguments: every table index, and FLIGHT_MODE_COUNT itself
FlightModeArgs == 0 .. FLIGHT_MODE_COUNT

\* channel arguments of setFlightMode(): two auxiliary channels, and 16
FlightChannelArgs == {RC_CHANNEL_AUX1, RC_CHANNEL_AUX1 + 1, 16}

\* <<min, max>> arguments of setFlightMode(): two ranges that share the
\* centre value
RangeArgs ==
    {<<CRSF_RC_CHANNEL_MIN, CRSF_RC_CHANNEL_CENTER>>,
     <<CRSF_RC_CHANNEL_CENTER, CRSF_RC_CHANNEL_MAX>>}

InitFlight ==
    /\ cfg = [rc |-> TRUE, ls |-> TRUE, tel |-> TRUE,
              initCh |-> FALSE, initArm |-> FALSE, initThr |-> FALSE]
    /\ devboardCompatible = TRUE
    /\ crsf = "live"
    /\ telemetry = "live"
    /\ \E byte \in Bytes :
         eng = receiveFrames([EngineNew EXCEPT !.pos = FrameLength - 1], byte)
    /\ rcChannelsCallback = FALSE
    /\ linkStatisticsCallback = FALSE
    /\ linkStatistics = getLinkStatistics(eng)
    /\ uartOpen = TRUE
    /\ available = 0
    /\ rcChannels = [valid |-> FALSE, failsafe |-> getFailSafe(eng),
                     value |-> getRcChannels(eng, InitSnapshot.value)]
    /\ pc = "idle"
    /\ call = CallNew
    /\ hist = [HistNew EXCEPT !.everFrame = TRUE, !.begun = "ok",
                              !.frameSinceBegin = TRUE]
    /\ last = [op |-> "construct", arg |-> 0, ok |-> TRUE, val |-> 0]
    /\ fault = "none"
    /\ InitFlightModes

\* faulty variant: the channel is not checked
setFlightModeAccepts_idOnly(flightMode, channel) ==
    flightMode < FLIGHT_MODE_COUNT

\* the condition of setFlightMode()
setFlightModeAccepts(flightMode, channel) ==
    flightMode < FLIGHT_MODE_COUNT /\ channel <= 15

\* the table after setFlightMode(flightMode, channel, min, max)
setFlightMode(table, flightMode, channel, min, max) ==
    IF setFlightModeAccepts(flightMode, channel)
    THEN [table EXCEPT ![flightMode] =
            [written |-> TRUE, channel |-> channel,
             min |-> min, max |-> max]]
    ELSE table

SetFlightMode ==
    /\ fault = "none"
    /\ pc = "idle"
    /\ CRSF_RC_ENABLED
    /\ \E flightMode \in FlightModeArgs, channel \in FlightChannelArgs,
          range \in RangeArgs :
         /\ flightModes' = setFlightMode(flightModes, flightMode, channel,
                                         range[1], range[2])
         /\ last' = [op |-> "setFlightMode", arg |-> flightMode,
                     ok |-> setFlightModeAccepts(flightMode, channel),
                     val |-> channel, min |-> range[1], max |-> range[2]]
    /\ call' = CallNew
    /\ UNCHANGED <<flightModeCallback,
                   cfg, devboardCompatible, crsf, telemetry, eng, uartOpen,
                   available, rcChannels, linkStatistics, rcChannelsCallback,
                   linkStatisticsCallback, pc, hist, fault>>

SetFlightModeCallback ==
    /\ fault = "none"
    /\ pc = "idle"
    /\ CRSF_RC_ENABLED
    /\ \E callback \in BOOLEAN :
         /\ flightModeCallback' = callback
         /\ last' = [op |-> "setFlightModeCallback", arg |-> 0,
                     ok |-> callback, val |-> 0]
    /\ call' = CallNew
    /\ UNCHANGED <<flightModes,
                   cfg, devboardCompatible, crsf, telemetry, eng, uartOpen,
                   available, rcChannels, linkStatistics, rcChannelsCallback,
                   linkStatisticsCallback, pc, hist, fault>>

\* the subscripts handleFlightMode() applies to _rcChannels for the entries
\* that have been written
Subscripts == {flightModes[i].channel : i \in {j \in FlightModeIds :
                                                 flightModes[j].written}}

\* the condition of the loop body for entry i: operand[k] is what
\* `_rcChannels[k]` compares as, unwritten[i] whether the condition comes out
\* true on the indeterminate contents of an entry never written
entryMatches(i, operand, unwritten) ==
    IF flightModes[i].written
    THEN /\ operand[flightModes[i].channel] >= flightModes[i].min
         /\ operand[flightModes[i].channel] <= flightModes[i].max
    ELSE unwritten[i]

\* the value of i when the loop of handleFlightMode() ends: the first entry
\* whose condition holds (callback invoked, break), FLIGHT_MODE_COUNT if none
handleFlightMode(operand, unwritten) ==
    LET hits == {i \in FlightModeIds : entryMatches(i, operand, unwritten)}
    IN  IF hits = {} THEN FLIGHT_MODE_COUNT
        ELSE CHOOSE i \in hits : \A j \in hits : i <= j

HandleFlightMode ==
    /\ fault = "none"
    /\ pc = "idle"
    /\ CRSF_RC_ENABLED
    /\ IF flightModeCallback
       THEN \E operand \in [Subscripts -> Uint16Samples],
               unwritten \in [FlightModeIds -> BOOLEAN] :
              last' = [op |-> "handleFlightMode",
                       arg |-> handleFlightMode(operand, unwritten),
                       ok |-> handleFlightMode(operand, unwritten)
                                < FLIGHT_MODE_COUNT,
                       val |-> 0]
       ELSE last' = [op |-> "handleFlightMode", arg |-> FLIGHT_MODE_COUNT,
                     ok |-> FALSE, val |-> 0]
    /\ call' = CallNew
    /\ UNCHANGED <<flightModes, flightModeCallback,
                   cfg, devboardCompatible, crsf, telemetry, eng, uartOpen,
                   available, rcChannels, linkStatistics, rcChannelsCallback,
                   linkStatisticsCallback, pc, hist, fault>>

\* the switch of telemetryWriteFlightMode()
flightModeStr(flightModeId) ==
    CASE flightModeId = FLIGHT_MODE_FAILSAFE -> "!FS!"
      [] flightModeId = FLIGHT_MODE_GPS_RESCUE -> "RTH"
      [] flightModeId = FLIGHT_MODE_PASSTHROUGH -> "MANU"
      [] flightModeId = FLIGHT_MODE_ANGLE -> "STAB"
      [] flightModeId = FLIGHT_MODE_HORIZON -> "HOR"
      [] flightModeId = FLIGHT_MODE_AIRMODE -> "AIR"
      [] OTHER -> "ACRO"

\* the second argument of telemetry->setFlightModeData()
flightModeArmed(flightModeId) ==
    IF flightModeId = FLIGHT_MODE_DISARMED THEN TRUE ELSE FALSE

\* last records the arguments handed to telemetry->setFlightModeData()
TelemetryWriteFlightMode ==
    /\ fault = "none"
    /\ pc = "idle"
    /\ CRSF_TELEMETRY_ENABLED
    /\ \E flightModeId \in FlightModeIds :
         last' = [op |-> "telemetryWriteFlightMode", arg |-> flightModeId,
                  ok |-> flightModeArmed(flightModeId), val |-> 0,
                  str |-> flightModeStr(flightModeId)]
    /\ fault' = useFault(telemetry)
    /\ call' = CallNew
    /\ UNCHANGED <<flightModes, flightModeCallback,
                   cfg, devboardCompatible, crsf, telemetry, eng, uartOpen,
                   available, rcChannels, linkStatistics, rcChannelsCallback,
                   linkStatisticsCallback, pc, hist>>

NextFlight ==
    \/ SetFlightMode
    \/ SetFlightModeCallback
    \/ HandleFlightMode
    \/ TelemetryWriteFlightMode

SpecFlight == InitFlight /\ [][NextFlight]_vars

(***************************************************************************)
(* Properties.                                                             *)
(***************************************************************************)
InCall == pc # "idle"
Returned == pc = "idle" /\ call.returned
BothForced ==
    /\ CRSF_RC_ENABLED
    /\ CRSF_RC_INITIALISE_CHANNELS
    /\ CRSF_RC_INITIALISE_ARMCHANNEL
    /\ CRSF_RC_INITIALISE_THROTTLECHANNEL

\* C1: with RC reporting enabled and an RC-channels callback registered, a
\* processFrames() call has not invoked the callback while it is still in
\* or before its drain loop and frame handlers, and has invoked it exactly
\* once when it returns, whatever the number of frames it completed.
C1_RcCallbackOncePerCall ==
    (CRSF_RC_ENABLED /\ rcChannelsCallback) =>
        /\ InCall => call.rcCalls = 0
        /\ Returned => call.rcCalls = 1

\* a call returned after it completed two frames and called back once
C1_Witness ==
    /\ CRSF_RC_ENABLED /\ rcChannelsCallback
    /\ Returned
    /\ call.frames = 2
    /\ call.rcCalls = 1

\* C2 as stated: a call made with two complete frames buffered (link
\* statistics enabled, callback registered) completes both frames and
\* invokes the link-statistics callback twice.
C2_TwoBufferedFramesBothCompleted ==
    (/\ CRSF_LINK_STATISTICS_ENABLED /\ linkStatisticsCallback
     /\ call.twoFrames /\ Returned)
        => (call.frames = 2 /\ call.lsCalls = 2)

\* C2 amended: a call made with two complete frames buffered (link
\* statistics enabled, callback registered) completes the first of them
\* and discards the bytes of the second unfed; it feeds the engine one
\* frame's worth of the buffered bytes plus at most what arrives during
\* the call, invokes the link-statistics callback never more than once per
\* completed frame and, when it returns, exactly once per completed frame;
\* that is exactly once when no byte arrives during the call.
C2_FirstFrameOnly ==
    (/\ CRSF_LINK_STATISTICS_ENABLED /\ linkStatisticsCallback
     /\ call.twoFrames)
        => /\ call.lsCalls <= call.frames
           /\ call.fed <= FrameLength + call.arrivals
           /\ Returned =>
                /\ call.frames >= 1
                /\ call.lsCalls = call.frames
                /\ call.dropped >= call.buffered - FrameLength
                /\ (call.arrivals = 0) =>
                       (call.frames = 1 /\ call.lsCalls = 1)

\* a call found two frames buffered, completed one and dropped the other
C2_Witness ==
    /\ CRSF_LINK_STATISTICS_ENABLED /\ linkStatisticsCallback
    /\ call.twoFrames /\ Returned
    /\ call.arrivals = 0
    /\ call.frames = 1 /\ call.lsCalls = 1
    /\ call.fed = FrameLength
    /\ call.dropped = FrameLength

\* C3: when the engine reports a completed frame the call goes on to
\* flushRemainingFrames(); the flush feeds nothing to the engine and ends
\* only with the receive buffer empty, every byte that was buffered at the
\* completion discarded; the link-statistics update and callback and the
\* telemetry check for the frame come after that.
C3_FlushBeforeHandlers ==
    [][/\ (InCall /\ call'.frames > call.frames) =>
              (pc' = "flush" /\ call'.pending = available')
       /\ (pc = "flush") => (call'.fed = call.fed /\ eng' = eng)
       /\ (pc = "flush" /\ pc' # "flush") =>
              (available = 0 /\ call.droppedSince >= call.pending)
       /\ (pc' = "linkstats") => (pc \in {"flush", "linkstats"})
       /\ (InCall /\ (\/ call'.lsCalls > call.lsCalls
                      \/ linkStatistics' # linkStatistics
                      \/ call'.telUpdates > call.telUpdates
                      \/ call'.telSends > call.telSends)) =>
              (/\ pc \in {"linkstats", "telemetry"}
               /\ call.droppedSince >= call.pending
               /\ call'.fed = call.fed)
      ]_vars

\* a frame completed with bytes still buffered; they are gone and the
\* link-statistics handler is next
C3_Witness ==
    /\ pc = "linkstats"
    /\ call.frames = 1
    /\ call.pending = 2
    /\ call.droppedSince >= 2
    /\ available = 0

\* C4 as stated: a second end() in a row after a begin() does not fail and
\* tears down neither engine a second time.
C4_SecondEndIsNoOp ==
    (hist.begun = "ok" /\ last.op = "end" /\ last.val = 2) =>
        /\ fault = "none"
        /\ hist.crsfFrees <= 1
        /\ hist.telemetryFrees <= 1

\* C5: while no frame has completed in a processFrames() call, and when
\* such a call has returned, the link-statistics callback has not been
\* invoked, the stored link statistics have not been written, the
\* telemetry engine has been neither polled nor asked to transmit, and no
\* byte has been discarded unfed; the RC-channels callback has run at most
\* once.
C5_NoFrameNoSideEffects ==
    [][((pc' # "idle" \/ call'.returned) /\ call'.frames = 0) =>
          /\ call'.lsCalls = 0
          /\ call'.telUpdates = 0
          /\ call'.telSends = 0
          /\ call'.dropped = 0
          /\ call'.rcCalls <= 1
          /\ InCall => linkStatistics' = linkStatistics
      ]_vars

\* a call with every feature on fed bytes, completed no frame and returned
C5_Witness ==
    /\ CRSF_RC_ENABLED /\ CRSF_LINK_STATISTICS_ENABLED
    /\ CRSF_TELEMETRY_ENABLED
    /\ linkStatisticsCallback /\ rcChannelsCallback
    /\ Returned
    /\ call.fed > 0
    /\ call.frames = 0
    /\ call.rcCalls = 1

\* C6 as stated: outside processFrames() the valid flag of the snapshot is
\* true exactly when the engine has completed a frame since construction.
C6_ValidIffFrameDecoded ==
    (CRSF_RC_ENABLED /\ pc = "idle") =>
        (rcChannels.valid <=> hist.everFrame)

\* C7: on a board the compatibility check rejects, begin() returns false,
\* the transport is never opened and neither engine is ever constructed.
C7_IncompatibleBeginFails ==
    (~devboardCompatible) =>
        /\ ~uartOpen
        /\ crsf = "null"
        /\ telemetry = "null"
        /\ (last.op = "begin") => ~last.ok

\* begin() has been called on an incompatible board
C7_Witness ==
    /\ ~devboardCompatible
    /\ last.op = "begin"
    /\ ~last.ok
    /\ hist.begun = "failed"

OutOfRange == {16, 17, 128, 255}

\* C10: readRcChannel(index, raw) and getChannel(index) with an index above
\* 15 return 0 and change nothing of the controller.
C10_OutOfRangeChannel ==
    [][(/\ last'.op \in {"readRcChannel", "getChannel"}
        /\ last'.arg > 15
        /\ last' # last) =>
          /\ last'.val = 0
          /\ UNCHANGED <<flightModes, flightModeCallback,
                         cfg, devboardCompatible, crsf, telemetry, eng,
                         uartOpen, available, rcChannels, linkStatistics,
                         rcChannelsCallback, linkStatisticsCallback, pc,
                         hist, fault>>
          /\ \A channel \in OutOfRange, raw \in BOOLEAN :
                /\ readRcChannel(channel, raw) = 0
                /\ getChannel(channel) = 0
      ]_vars

\* readRcChannel(255, false) has returned 0 with channels decoded from a
\* frame in the snapshot
C10_Witness ==
    /\ last.op = "readRcChannel"
    /\ last.arg = 255
    /\ ~last.ok
    /\ last.val = 0
    /\ rcChannels.value[0] = DecodedValue(0)

(***************************************************************************)
(* Unit conversion (specification SpecConv).                               *)
(***************************************************************************)
ProtocolRange == CRSF_RC_CHANNEL_MIN .. CRSF_RC_CHANNEL_MAX

\* the raw value the converters of SpecConv are applied to
StoredRc == rcChannels.value[RC_CHANNEL_AUX1]

\* usToRc() has just been applied to rcToUs() of the stored value
RoundTripDone ==
    /\ last.op = "usToRc"
    /\ last.ok
    /\ last.arg = rcToUs(StoredRc)

\* C11: for every protocol value v in [172, 1811], usToRc(rcToUs(v))
\* differs from v by at most 1.
C11_RoundTripWithinOne ==
    (RoundTripDone /\ StoredRc \in ProtocolRange)
        => (last.val - StoredRc) \in -1 .. 1

\* the pulse width the comment of readRcChannel() gives for an anchor value
AnchorUs(value) ==
    CASE value = CRSF_RC_CHANNEL_MIN -> 988
      [] value = CRSF_RC_CHANNEL_CENTER -> 1500
      [] value = CRSF_RC_CHANNEL_MAX -> 2012

Anchors ==
    {CRSF_RC_CHANNEL_MIN, CRSF_RC_CHANNEL_CENTER, CRSF_RC_CHANNEL_MAX}

\* C12: rcToUs(172) = 988, rcToUs(992) = 1500 and rcToUs(1811) = 2012, and
\* readRcChannel(index, false) returns the same values for a channel that
\* stores 172, 992 or 1811.
C12_AnchorPoints ==
    /\ (last.op = "rcToUs" /\ last.arg \in Anchors)
         => last.val = AnchorUs(last.arg)
    /\ (/\ last.op = "readRcChannel"
        /\ ~last.ok
        /\ last.arg \in Channels
        /\ rcChannels.value[last.arg] \in Anchors)
         => last.val = AnchorUs(rcChannels.value[last.arg])

\* the maximum has been converted both ways: by rcToUs() and by
\* readRcChannel(AUX1, false)
C12_Witness ==
    /\ StoredRc = CRSF_RC_CHANNEL_MAX
    /\ \/ last.op = "rcToUs" /\ last.arg = StoredRc /\ last.val = 2012
       \/ /\ last.op = "readRcChannel"
          /\ ~last.ok
          /\ last.arg = RC_CHANNEL_AUX1
          /\ last.val = 2012

(***************************************************************************)
(* Flight modes (specification SpecFlight).                                *)
(***************************************************************************)
\* C13: setFlightMode(id, channel, min, max) returns true and overwrites
\* exactly the entry at index id with (channel, min, max) when id is below
\* the mode count and channel is at most 15; in every other case it returns
\* false and leaves every entry of the table unchanged.
C13_SetFlightMode ==
    [][last'.op = "setFlightMode" =>
         /\ last'.ok = (last'.arg < FLIGHT_MODE_COUNT /\ last'.val <= 15)
         /\ IF last'.ok
            THEN flightModes' =
                   [flightModes EXCEPT ![last'.arg] =
                      [written |-> TRUE, channel |-> last'.val,
                       min |-> last'.min, max |-> last'.max]]
            ELSE flightModes' = flightModes]_vars

\* a call with channel 16 has been rejected after every entry was written
C13_Witness ==
    /\ last.op = "setFlightMode"
    /\ ~last.ok
    /\ last.arg < FLIGHT_MODE_COUNT
    /\ last.val = 16
    /\ \A i \in FlightModeIds : flightModes[i].written

\* the entries whose range holds the current value of their channel
MatchingEntries ==
    {i \in FlightModeIds :
        /\ rcChannels.value[flightModes[i].channel] >= flightModes[i].min
        /\ rcChannels.value[flightModes[i].channel] <= flightModes[i].max}

\* C14: handleFlightMode() with a registered callback invokes the callback
\* at most once, with the lowest index i such that the current value of
\* channel entry[i].channel lies in [entry[i].min, entry[i].max]; when no
\* entry matches or no callback is registered, no callback is invoked.
\* (Stated for a table whose entries have all been written.)
C14_LowestMatchReported ==
    (/\ last.op = "handleFlightMode"
     /\ \A i \in FlightModeIds : flightModes[i].written)
        => IF flightModeCallback /\ MatchingEntries # {}
           THEN /\ last.ok
                /\ last.arg \in MatchingEntries
                /\ \A j \in MatchingEntries : last.arg <= j
           ELSE ~last.ok

\* C15: telemetryWriteFlightMode(id) passes an armed flag that is false when
\* id is FLIGHT_MODE_DISARMED and true for every other identifier.
C15_ArmedIsNotDisarmed ==
    last.op = "telemetryWriteFlightMode"
        => (last.ok <=> last.arg # FLIGHT_MODE_DISARMED)

\* C19: handleFlightMode() never invokes the flight-mode callback with a
\* mode identifier whose entry has not been written by a successful
\* setFlightMode() call since construction.
C19_OnlyWrittenEntriesReported ==
    (last.op = "handleFlightMode" /\ last.ok)
        => flightModes[last.arg].written

(***************************************************************************)
(* processFrames(): termination, telemetry and engine lifetime             *)
(* (specification Spec).                                                   *)
(***************************************************************************)
\* bytes the running or just returned call has taken from the transport
BytesTaken == call.fed + call.dropped

\* C16: the number of bytes processFrames() takes from the transport in one
\* call is at most the number of bytes buffered at the moment of the call,
\* also when bytes arrive while the call is running.
C16_TakesAtMostBuffered == BytesTaken <= call.buffered

\* what is left for the call to do: the buffered bytes still to take, then
\* the statements up to the return
StepsLeft ==
    5 * available
    + CASE pc = "flush" -> 5
        [] pc = "linkstats" -> 4
        [] pc = "telemetry" -> 3
        [] pc = "loop" -> 2
        [] pc = "publish" -> 1
        [] OTHER -> 0

\* C16: the bytes a call takes are at most the bytes buffered at the call
\* plus the bytes that arrive while it runs, and every step of the call
\* other than the arrival of a byte brings the return nearer, so the call
\* returns once bytes stop arriving.
C16_TakesBufferedAndArrived ==
    [][/\ BytesTaken' <= call'.buffered + call'.arrivals
       /\ (pc # "idle" /\ fault' = "none" /\ available' <= available)
            => StepsLeft' < StepsLeft]_vars

\* a call has returned having taken more bytes than were buffered when it
\* was called
C16_Witness ==
    /\ Returned
    /\ call.arrivals > 0
    /\ BytesTaken > call.buffered

\* C17: with telemetry enabled, update() is called exactly once for each
\* completed frame and never otherwise, and the payload is sent exactly when
\* update() returns true: at most once per completed frame, never in a call
\* that completes no frame.
C17_TelemetryOncePerFrame ==
    CRSF_TELEMETRY_ENABLED =>
        /\ call.telUpdates =
             call.frames - (IF pc \in {"flush", "linkstats", "telemetry"}
                            THEN 1 ELSE 0)
        /\ call.telSends = call.telReady
        /\ call.telSends <= call.frames

\* a call has returned after two frames, one followed by a transmission and
\* one not
C17_Witness ==
    /\ Returned
    /\ CRSF_TELEMETRY_ENABLED
    /\ call.frames = 2
    /\ call.telUpdates = 2
    /\ call.telSends = 1

\* C18: processFrames() uses the decode engine and the telemetry engine only
\* while the engine is constructed and not torn down: no step of
\* processFrames() calls through a null or deleted engine pointer.
C18_EnginesUsedWhileLive == (pc # "idle") => fault = "none"

====
